---- MODULE Spec2Model ----
(***************************************************************************)
(* Draft-metadata lifecycle of dataplexutils.metadata: the warehouse       *)
(* (BigQuery) description, the catalog (Dataplex) overview and the review  *)
(* aspect of one table and one of its columns, with the operations that    *)
(* generate, stage, accept, flag and comment on a description.  Every      *)
(* external call of an operation may fail; the flags quantified in each    *)
(* action are the outcomes of those calls, in the order the code makes     *)
(* them.                                                                   *)
(*                                                                         *)
(* A text is a sequence of tokens.  "W" is the AI-provenance watermark     *)
(* (one token), "h" and "k" are human-authored text, "a" and "b" are the   *)
(* two answers the generative model can give.                              *)
(*                                                                         *)
(* A dataset batch, the context gathered for one table's prompt and one    *)
(* llm_inference call are processes of their own: each has its variable,   *)
(* its initial condition and its specification, and moves one loop         *)
(* iteration or one call at a time.                                        *)
(***************************************************************************)
EXTENDS Integers, Sequences, FiniteSets, TLC

\* ---- bounds ------------------------------------------------------------
\* longest description, in tokens, that a write may produce in a run
MaxLen == 3
\* most comments a record's human-comments list may hold in a run
MaxComments == 2
\* most operations in a run
MaxOps == 3
\* most tables a dataset listing or a documentation CSV may hold
MaxTables == 2
\* most combine_description calls made on one description in a run
MaxMerges == 2

\* ---- constants of the program -------------------------------------------
\* constants["OUTPUT_CLAUSES"]["AI_WARNING"]
AI_WARNING == <<"W">>
\* constants["DESCRIPTION_HANDLING"]: the values combine_description compares
\* the lower-cased option with
DESCRIPTION_HANDLING == [APPEND |-> "append", PREPEND |-> "prepend", REPLACE |-> "replace"]

\* the answers of the generative model
LLM_OUTPUT == {<<"a">>, <<"b">>}
\* the comments a reviewer can add
COMMENTS == {"c1", "c2"}
\* the negative examples a reviewer can add
NEGATIVE_EXAMPLES == {"n1", "n2"}
\* description_handling as a caller can pass it (any string; one unrecognized)
HANDLING_INPUT == {"APPEND", "prepend", "Replace", "MERGE"}
\* the two targets: the table and one column of it
Targets == {"table", "column"}

\* ---- pure helpers ---------------------------------------------------------
\* str.lower() on the option strings above
lower(s) ==
  CASE s = "APPEND" -> "append"
    [] s = "Replace" -> "replace"
    [] s = "MERGE" -> "merge"
    [] OTHER -> s

\* str.index(AI_WARNING): position of the first watermark, 0 when there is none
\* (Python raises ValueError there)
index(text) ==
  IF \E i \in 1..Len(text) : text[i] = AI_WARNING[1]
  THEN CHOOSE i \in 1..Len(text) :
         /\ text[i] = AI_WARNING[1]
         /\ \A j \in 1..(i - 1) : text[j] # AI_WARNING[1]
  ELSE 0

\* a merge that keeps the new text only, whatever the policy
combine_description_dropping_old(old_description, new_description, description_handling) ==
  IF new_description = <<>> THEN old_description ELSE new_description

\* MetadataUtils.combine_description
combine_description(old_description, new_description, description_handling) ==
  LET description_handling_lower == lower(description_handling)
  IN  IF new_description = <<>> THEN old_description
      ELSE IF description_handling_lower = DESCRIPTION_HANDLING.APPEND
           THEN IF old_description # <<>>
                THEN IF index(old_description) # 0
                     THEN SubSeq(old_description, 1, index(old_description) - 1) \o new_description
                     ELSE old_description \o new_description
                ELSE new_description
      ELSE IF description_handling_lower = DESCRIPTION_HANDLING.PREPEND
           THEN new_description \o old_description
      ELSE IF description_handling_lower = DESCRIPTION_HANDLING.REPLACE
           THEN new_description
      ELSE old_description

\* ---- state ----------------------------------------------------------------
VARIABLES
  opts,        \* the Client's ClientOptions
  bq_desc,     \* warehouse: table.description ("" when None)
  col_desc,    \* warehouse: description of the column in table.schema
  overview,    \* catalog: the dataplex-types overview aspect of the entry
  aspects,     \* catalog: the review aspect (the record) of each target
  promoted,    \* history: targets whose draft an accept has written to the warehouse
  last,        \* the operation that ran last and what it returned
  ops,         \* how many operations have run
  batch,       \* the dataset batch: its request, its position and the calls it made
  context,     \* one generate_table_description gathering the context of its prompt
  inference,   \* one llm_inference call: its attempts and its waits
  merge,       \* a description under repeated combine_description calls
  local,       \* two concurrent record mutations: what each has read and done
  prompt       \* the options a prompt is built from and the sections it is built of

vars == <<opts, bq_desc, col_desc, overview, aspects, promoted, last, ops, batch, context, inference,
          merge, local, prompt>>

\* an entry without the review aspect at the target's path
NoAspect ==
  [exists |-> FALSE, has_contents |-> FALSE, contents |-> <<>>,
   tbr |-> "absent", acc |-> "absent",
   has_hc |-> FALSE, hc |-> <<>>, has_ne |-> FALSE, ne |-> <<>>]

\* no operation has run yet
NoCall ==
  [op |-> "none", tgt |-> "none", res |-> "none", text |-> <<>>,
   wh |-> "none", cat |-> "none", rec |-> "none", clr |-> "none"]

\* the outcomes of an external call that is made only when attempted holds:
\* "ok", "raise" (the call before the write fails and the exception leaves the
\* function), "false" (the write fails, is logged and the function returns False)
Outcome(attempted) == IF attempted THEN {"ok", "raise", "false"} ELSE {"none"}
\* the same for a call whose failures all end the same way
Outcome2(attempted) == IF attempted THEN {"ok", "fail"} ELSE {"none"}

\* no dataset batch has been requested
NoBatch ==
  [strategy |-> "NAIVE", csv_uri |-> FALSE, dataset |-> <<>>, flagged |-> {}, csv |-> <<>>,
   pc |-> "idle", i |-> 1, tables |-> <<>>, order |-> <<>>, calls |-> <<>>,
   ext |-> {}, res |-> "none",
   options |-> [description_handling |-> "APPEND", stage_for_review |-> FALSE,
                persist_to_dataplex_catalog |-> FALSE, add_ai_warning |-> FALSE,
                regenerate |-> FALSE, use_human_comments |-> FALSE]]

\* no generate_table_description is gathering context
NoContext ==
  [use_data_quality |-> FALSE, use_profile |-> FALSE,
   use_lineage_tables |-> FALSE, use_lineage_processes |-> FALSE,
   pc |-> "table_exists", table_sample |-> "unset", table_quality |-> "unset",
   table_profile |-> "unset", table_sources_info |-> "unset", job_sources_info |-> "unset",
   res |-> "none", failed |-> "none"]

\* no llm_inference call has been made
NoInference ==
  [documentation_uri |-> FALSE, use_ext_documents |-> FALSE,
   attempt |-> 0, attempts |-> <<>>, slept |-> <<>>, res |-> "none", text |-> <<>>]

\* no description is being combined
NoMerge ==
  [origin |-> <<>>, old |-> <<>>, new |-> <<>>, handling |-> "none", text |-> <<>>,
   signal |-> "none", n |-> 0, appended |-> TRUE]

\* no record mutation is under way
NoLocal ==
  [p \in {"add_comment", "mark_for_regeneration"} |->
     [pc |-> "idle", entry |-> NoAspect, comment |-> "none", res |-> "none"]]

\* no prompt has been asked for
NoPrompt ==
  [use_profile |-> FALSE, use_data_quality |-> FALSE, use_lineage_tables |-> FALSE,
   use_lineage_processes |-> FALSE, use_ext_documents |-> FALSE,
   use_human_comments |-> FALSE, top_values_in_description |-> TRUE,
   prompt_type |-> "none", sections |-> <<>>]

\* one more operation runs
Step == ops < MaxOps /\ ops' = ops + 1 /\ UNCHANGED <<batch, context, inference, merge, local, prompt>>

\* data["to-be-regenerated"] == True, as check_if_table_should_be_regenerated reads it
should_be_regenerated(rec) == rec.exists /\ rec.tbr = "true"

\* the record's is-accepted field read as a boolean
is_accepted(rec) == rec.exists /\ rec.acc = "true"

Init ==
  /\ opts \in [description_handling : HANDLING_INPUT,
               stage_for_review : BOOLEAN,
               persist_to_dataplex_catalog : BOOLEAN,
               add_ai_warning : BOOLEAN,
               regenerate : BOOLEAN,
               use_human_comments : {FALSE}]
  /\ bq_desc \in {<<>>, <<"h">>}
  /\ col_desc = <<>>
  /\ overview \in {[exists |-> FALSE, content |-> <<>>],
                   [exists |-> TRUE, content |-> <<"k">>]}
  /\ aspects = [t \in Targets |-> NoAspect]
  /\ promoted = {}
  /\ last = NoCall
  /\ ops = 0
  /\ batch = NoBatch
  /\ context = NoContext
  /\ inference = NoInference
  /\ merge = NoMerge
  /\ local = NoLocal
  /\ prompt = NoPrompt


\* ---- record (aspect data) transformations -----------------------------------
\* no metadata argument (metadata=None)
NoMetadata == [given |-> FALSE, acc |-> "absent", hc |-> <<>>, ne |-> <<>>, lists |-> FALSE]

\* a draft write that merges the new text into the draft it finds
draft_data_merged(rec, description, metadata) ==
  [exists |-> TRUE,
   has_contents |-> TRUE,
   contents |-> combine_description(rec.contents, description, opts.description_handling),
   tbr |-> "str_false",
   acc |-> IF metadata.given /\ metadata.acc # "absent" THEN metadata.acc ELSE "str_false",
   has_hc |-> IF metadata.given /\ metadata.lists THEN TRUE ELSE rec.has_hc,
   hc |-> IF metadata.given /\ metadata.lists THEN metadata.hc ELSE rec.hc,
   has_ne |-> IF metadata.given /\ metadata.lists THEN TRUE ELSE rec.has_ne,
   ne |-> IF metadata.given /\ metadata.lists THEN metadata.ne ELSE rec.ne]

\* DataplexOperations.update_table_draft_description and
\* update_column_draft_description: the aspect data they send.  The old data
\* is kept and contents, to-be-regenerated ("false", a string) and is-accepted
\* ("false", a string) are overwritten; the keys of metadata overwrite those.
draft_data(rec, description, metadata) ==
  [exists |-> TRUE,
   has_contents |-> TRUE,
   contents |-> description,
   tbr |-> "str_false",
   acc |-> IF metadata.given /\ metadata.acc # "absent" THEN metadata.acc ELSE "str_false",
   has_hc |-> IF metadata.given /\ metadata.lists THEN TRUE ELSE rec.has_hc,
   hc |-> IF metadata.given /\ metadata.lists THEN metadata.hc ELSE rec.hc,
   has_ne |-> IF metadata.given /\ metadata.lists THEN TRUE ELSE rec.has_ne,
   ne |-> IF metadata.given /\ metadata.lists THEN metadata.ne ELSE rec.ne]

\* a mark that flags the record whichever of the two operations is called
mark_data_always_flagged(rec, flag) ==
  IF rec.exists
  THEN [rec EXCEPT !.tbr = "true"]
  ELSE [exists |-> TRUE, has_contents |-> TRUE, contents |-> <<>>,
        tbr |-> "true", acc |-> "absent",
        has_hc |-> TRUE, hc |-> <<>>, has_ne |-> TRUE, ne |-> <<>>]

\* mark_table_for_regeneration, mark_table_as_regenerated and the column
\* variants: the aspect data they send (flag is "true" or "false")
mark_data(rec, flag) ==
  IF rec.exists
  THEN [rec EXCEPT !.tbr = flag]
  ELSE [exists |-> TRUE, has_contents |-> TRUE, contents |-> <<>>,
        tbr |-> flag, acc |-> "absent",
        has_hc |-> TRUE, hc |-> <<>>, has_ne |-> TRUE, ne |-> <<>>]

\* a comment write that sends the new comment alone
comment_data_overwriting(rec, comment) ==
  IF rec.exists
  THEN [rec EXCEPT !.has_hc = TRUE, !.hc = <<comment>>]
  ELSE [NoAspect EXCEPT !.exists = TRUE, !.has_hc = TRUE, !.hc = <<comment>>]

\* add_comment_to_table_draft_description and the column variant: the aspect
\* data they send
comment_data(rec, comment) ==
  IF rec.exists
  THEN [rec EXCEPT !.has_hc = TRUE, !.hc = Append(rec.hc, comment)]
  ELSE [NoAspect EXCEPT !.exists = TRUE, !.has_hc = TRUE, !.hc = <<comment>>]

\* accept_column_draft_description: the aspect data it sends
accepted_data(rec) == [rec EXCEPT !.acc = "true", !.tbr = "false"]

\* ---- the two permanent stores ------------------------------------------------
\* BigQueryOperations.update_table_description: the description it writes
update_table_description(description) ==
  combine_description(bq_desc, description, opts.description_handling)

\* DataplexOperations.update_table_dataplex_description: the overview it writes
update_table_dataplex_description(description) ==
  IF overview.exists
  THEN [exists |-> TRUE,
        content |-> combine_description(overview.content, description, opts.description_handling)]
  ELSE [exists |-> TRUE, content |-> description]

\* BigQueryOperations.update_column_description: the column description it writes
update_column_description(description) ==
  combine_description(col_desc, description, opts.description_handling)

\* ---- generate ------------------------------------------------------------------
\* a generate that reads no option and always takes the permanent branch
stage_for_review_ignored == FALSE

\* self._client._client_options._stage_for_review, as generate_table_description
\* branches on it
stage_for_review == opts.stage_for_review

\* TableOperations.generate_table_description.  ctx: the table exists, its
\* schema, sample and comments are read and the model answers, or one of these
\* raises.  bq: update_table_description.  ov: update_table_dataplex_description.
\* ty: _check_if_exists_aspect_type and _create_aspect_type.
\* dr: update_table_draft_description.  mk: mark_table_as_regenerated.
generate_table_description ==
  \E ctx \in Outcome2(TRUE) :
  \E text \in IF ctx = "ok" THEN LLM_OUTPUT ELSE {<<>>} :
  \E bq \in Outcome2(ctx = "ok" /\ ~stage_for_review) :
  \E ov \in Outcome(bq = "ok" /\ opts.persist_to_dataplex_catalog) :
  \E ty \in Outcome2(ctx = "ok" /\ stage_for_review) :
  \E dr \in Outcome(ty = "ok") :
    LET raised == ctx = "fail" \/ bq = "fail" \/ ov = "raise" \/ ty = "fail" \/ dr = "raise"
    IN
  \E mk \in Outcome2(~raised /\ opts.regenerate) :
    LET table_description ==
          IF ctx # "ok" THEN <<>>
          ELSE IF opts.add_ai_warning THEN AI_WARNING \o text ELSE text
        rec0 == aspects["table"]
        rec1 == IF dr = "ok" THEN draft_data(rec0, table_description, NoMetadata) ELSE rec0
        rec2 == IF mk = "ok" THEN mark_data(rec1, "false") ELSE rec1
        new_bq == IF bq = "ok" THEN update_table_description(table_description) ELSE bq_desc
        new_ov == IF ov = "ok" THEN update_table_dataplex_description(table_description) ELSE overview
    IN  /\ Step
        /\ Len(new_bq) <= MaxLen
        /\ Len(new_ov.content) <= MaxLen
        /\ bq_desc' = new_bq
        /\ overview' = new_ov
        /\ aspects' = [aspects EXCEPT !["table"] = rec2]
        /\ last' = [op |-> "generate_table", tgt |-> "table",
                    res |-> IF raised THEN "raise" ELSE "success",
                    text |-> table_description,
                    wh |-> bq, cat |-> ov, rec |-> dr, clr |-> mk]
        /\ UNCHANGED <<opts, col_desc, promoted>>

\* ---- accept (table) --------------------------------------------------------------
\* the draft accept_table_draft_description finds in the record ("" when the
\* aspect or its contents key is missing)
draft_of(rec) == IF rec.exists /\ rec.has_contents THEN rec.contents ELSE <<>>

\* an accept that goes on to the two writes whatever it read
has_draft_unchecked(rec) == TRUE

\* "if overview:" in accept_table_draft_description: a draft was found and is
\* not empty
has_draft(rec) == draft_of(rec) # <<>>

\* DataplexOperations.accept_table_draft_description run on the record rec with
\* get: its get_entry, ov: update_table_dataplex_description,
\* bq: update_table_description: what it returns and leaves in the two stores
accept_table(rec, get, ov, bq) ==
  [res |-> IF ov = "ok" /\ bq = "ok" THEN "True" ELSE "False",
   bq |-> IF bq = "ok" THEN update_table_description(draft_of(rec)) ELSE bq_desc,
   ov |-> IF ov = "ok" THEN update_table_dataplex_description(draft_of(rec)) ELSE overview,
   wh |-> bq,
   cat |-> ov]

\* Client.accept_table_draft_description called directly
accept_table_draft_description ==
  \E get \in Outcome2(TRUE) :
  \E ov \in Outcome(get = "ok" /\ has_draft(aspects["table"])) :
  \E bq \in Outcome2(ov \in {"ok", "false"}) :
    LET r == accept_table(aspects["table"], get, ov, bq)
    IN  /\ Step
        /\ Len(r.bq) <= MaxLen
        /\ Len(r.ov.content) <= MaxLen
        /\ bq_desc' = r.bq
        /\ overview' = r.ov
        /\ promoted' = IF r.wh = "ok" THEN promoted \cup {"table"} ELSE promoted
        /\ last' = [op |-> "accept_table", tgt |-> "table", res |-> r.res, text |-> <<>>,
                    wh |-> r.wh, cat |-> r.cat, rec |-> "none", clr |-> "none"]
        /\ UNCHANGED <<opts, col_desc, aspects>>

\* backend_apis accept_table_draft_description (POST /accept_table_draft_description).
\* c, n: get_comments_..., get_negative_examples_... (a failure reads as []);
\* d: get_review_item_details; dr: update_table_draft_description; then the
\* call of Client.accept_table_draft_description, whose result is dropped.
api_accept_table_draft_description ==
  \E c \in Outcome2(aspects["table"].hc # <<>>) :
  \E n \in Outcome2(aspects["table"].ne # <<>>) :
  \E d \in Outcome2(TRUE) :
  \E dr \in Outcome(d = "ok") :
    LET rec0 == aspects["table"]
        existing_comments == IF c = "ok" THEN rec0.hc ELSE <<>>
        existing_negative_examples == IF n = "ok" THEN rec0.ne ELSE <<>>
        aspect_content == [given |-> TRUE, acc |-> "true", lists |-> TRUE,
                           hc |-> existing_comments, ne |-> existing_negative_examples]
        rec1 == IF dr = "ok" THEN draft_data(rec0, draft_of(rec0), aspect_content) ELSE rec0
    IN
  \E get \in Outcome2(dr = "ok") :
  \E ov \in Outcome(get = "ok" /\ has_draft(rec1)) :
  \E bq \in Outcome2(ov \in {"ok", "false"}) :
    LET r == accept_table(rec1, get, ov, bq)
    IN  /\ Step
        /\ Len(r.bq) <= MaxLen
        /\ Len(r.ov.content) <= MaxLen
        /\ bq_desc' = r.bq
        /\ overview' = r.ov
        /\ aspects' = [aspects EXCEPT !["table"] = rec1]
        /\ promoted' = IF r.wh = "ok" THEN promoted \cup {"table"} ELSE promoted
        /\ last' = [op |-> "api_accept_table", tgt |-> "table",
                    res |-> IF dr = "ok" THEN "200" ELSE "500", text |-> <<>>,
                    wh |-> r.wh, cat |-> r.cat, rec |-> dr, clr |-> "none"]
        /\ UNCHANGED <<opts, col_desc>>

\* ---- flag and comment (table) ------------------------------------------------------
\* a read-modify-write of one target's aspect: get_entry, then update_entry;
\* either failing makes the function return False
aspect_rmw(op, tgt, data) ==
  \E rmw \in Outcome2(TRUE) :
    /\ Step
    /\ aspects' = IF rmw = "ok" THEN [aspects EXCEPT ![tgt] = data] ELSE aspects
    /\ last' = [op |-> op, tgt |-> tgt,
                res |-> IF rmw = "ok" THEN "True" ELSE "False", text |-> <<>>,
                wh |-> "none", cat |-> "none", rec |-> rmw, clr |-> "none"]
    /\ UNCHANGED <<opts, bq_desc, col_desc, overview, promoted>>

\* DataplexOperations.mark_table_for_regeneration
mark_table_for_regeneration ==
  aspect_rmw("mark_for_regeneration", "table", mark_data(aspects["table"], "true"))

\* DataplexOperations.mark_table_as_regenerated
mark_table_as_regenerated ==
  aspect_rmw("mark_as_regenerated", "table", mark_data(aspects["table"], "false"))

\* ReviewOperations.add_comment_to_table_draft_description
add_comment_to_table_draft_description ==
  \E comment \in COMMENTS :
    /\ Len(aspects["table"].hc) < MaxComments
    /\ aspect_rmw("add_comment", "table", comment_data(aspects["table"], comment))

\* backend_apis add_negative_example (POST /metadata/review/add_negative_example).
\* c, n: get_comments_..., get_negative_examples_... (a failure reads as []);
\* d: get_review_item_details; dr: update_table_draft_description with the two
\* lists as metadata.
api_add_negative_example ==
  \E example \in NEGATIVE_EXAMPLES :
  \E c \in Outcome2(aspects["table"].hc # <<>>) :
  \E n \in Outcome2(aspects["table"].ne # <<>>) :
  \E d \in Outcome2(TRUE) :
  \E dr \in Outcome(d = "ok") :
    LET rec0 == aspects["table"]
        existing_comments == IF c = "ok" THEN rec0.hc ELSE <<>>
        existing_negative_examples ==
          (IF n = "ok" THEN rec0.ne ELSE <<>>) \o <<example>>
        aspect_content == [given |-> TRUE, acc |-> "absent", lists |-> TRUE,
                           hc |-> existing_comments, ne |-> existing_negative_examples]
    IN  /\ Step
        /\ Len(rec0.ne) < MaxComments
        /\ aspects' = IF dr = "ok"
                      THEN [aspects EXCEPT !["table"] =
                              draft_data(rec0, draft_of(rec0), aspect_content)]
                      ELSE aspects
        /\ last' = [op |-> "add_negative_example", tgt |-> "table",
                    res |-> IF dr = "ok" THEN "200" ELSE "500", text |-> <<example>>,
                    wh |-> "none", cat |-> "none", rec |-> dr, clr |-> "none"]
        /\ UNCHANGED <<opts, bq_desc, col_desc, overview, promoted>>

\* ---- generate (column) ---------------------------------------------------------------
\* constants["DATA"]["MAX_COLUMN_DESC_LENGTH"]
MAX_COLUMN_DESC_LENGTH == 1024

\* ColumnOperations._get_updated_column: the description of the new SchemaField
get_updated_column(description, column_description) ==
  LET merged == IF opts.add_ai_warning
                THEN IF index(description) # 0
                     THEN SubSeq(description, 1, index(description) - 1) \o column_description
                     ELSE description \o column_description
                ELSE column_description
  IN  SubSeq(merged, 1, IF Len(merged) < MAX_COLUMN_DESC_LENGTH THEN Len(merged)
                        ELSE MAX_COLUMN_DESC_LENGTH)

\* ColumnOperations.generate_columns_descriptions on the table's one column.
\* ctx: the table exists and its schema, sample and comments are read.
\* chk: check_if_column_should_be_regenerated (a failed read answers False).
\* llm: llm_inference.  dr: update_column_draft_description.
\* sch: update_table_schema.  mk: mark_column_as_regenerated.
generate_columns_descriptions ==
  \E ctx \in Outcome2(TRUE) :
  \E chk \in Outcome2(ctx = "ok" /\ opts.regenerate) :
    LET selected == /\ ctx = "ok"
                    /\ \/ ~opts.regenerate
                       \/ chk = "ok" /\ should_be_regenerated(aspects["column"])
    IN
  \E llm \in Outcome2(selected) :
  \E text \in IF llm = "ok" THEN LLM_OUTPUT ELSE {<<>>} :
  \E dr \in Outcome(llm = "ok" /\ opts.stage_for_review) :
  \E sch \in Outcome2(/\ ctx = "ok" /\ llm # "fail" /\ dr # "raise"
                      /\ ~opts.stage_for_review) :
    LET raised == ctx = "fail" \/ llm = "fail" \/ dr = "raise" \/ sch = "fail"
    IN
  \E mk \in Outcome2(~raised /\ opts.regenerate /\ llm = "ok") :
    LET column_description ==
          IF llm # "ok" THEN <<>>
          ELSE IF opts.add_ai_warning THEN AI_WARNING \o text ELSE text
        rec0 == aspects["column"]
        rec1 == IF dr = "ok" THEN draft_data(rec0, column_description, NoMetadata) ELSE rec0
        rec2 == IF mk = "ok" THEN mark_data(rec1, "false") ELSE rec1
        new_col == IF sch = "ok" /\ llm = "ok"
                   THEN get_updated_column(col_desc, column_description)
                   ELSE col_desc
    IN  /\ Step
        /\ Len(new_col) <= MaxLen
        /\ col_desc' = new_col
        /\ aspects' = [aspects EXCEPT !["column"] = rec2]
        /\ last' = [op |-> "generate_columns", tgt |-> "column",
                    res |-> IF raised THEN "raise" ELSE "success",
                    text |-> column_description,
                    wh |-> sch, cat |-> "none", rec |-> dr, clr |-> mk]
        /\ UNCHANGED <<opts, bq_desc, overview, promoted>>

\* ---- accept (column) ------------------------------------------------------------------
\* DataplexOperations.accept_column_draft_description.  get: get_entry.
\* bq: update_column_description.  upd: update_entry of the accepted aspect.
accept_column_draft_description ==
  \E get \in Outcome2(TRUE) :
    LET rec0 == aspects["column"]
        \* aspect_found and aspect.data["contents"] is readable
        found == get = "ok" /\ rec0.exists /\ rec0.has_contents
        draft_description == rec0.contents
    IN
  \E bq \in Outcome2(found) :
  \E upd \in Outcome2(bq = "ok") :
    LET new_col == IF bq = "ok" THEN update_column_description(draft_description) ELSE col_desc
    IN  /\ Step
        /\ Len(new_col) <= MaxLen
        /\ col_desc' = new_col
        /\ aspects' = IF upd = "ok" THEN [aspects EXCEPT !["column"] = accepted_data(rec0)]
                      ELSE aspects
        /\ promoted' = IF bq = "ok" /\ draft_description # <<>>
                       THEN promoted \cup {"column"} ELSE promoted
        /\ last' = [op |-> "accept_column", tgt |-> "column",
                    res |-> IF upd = "ok" THEN "True" ELSE "False", text |-> <<>>,
                    wh |-> bq, cat |-> "none", rec |-> upd, clr |-> "none"]
        /\ UNCHANGED <<opts, bq_desc, overview>>

\* ---- flag and comment (column) -----------------------------------------------------------
\* DataplexOperations.mark_column_for_regeneration
mark_column_for_regeneration ==
  aspect_rmw("mark_for_regeneration", "column", mark_data(aspects["column"], "true"))

\* DataplexOperations.mark_column_as_regenerated
mark_column_as_regenerated ==
  aspect_rmw("mark_as_regenerated", "column", mark_data(aspects["column"], "false"))

\* ReviewOperations.add_comment_to_column_draft_description
add_comment_to_column_draft_description ==
  \E comment \in COMMENTS :
    /\ Len(aspects["column"].hc) < MaxComments
    /\ aspect_rmw("add_comment", "column", comment_data(aspects["column"], comment))

\* ---- dataset batch (table_operations.py) ---------------------------------------------
\* the tables a dataset or a documentation CSV can name
TABLES == {"t1", "t2", "t3"}
\* the keys of constants["GENERATION_STRATEGY"]
GENERATION_STRATEGY == {"NAIVE", "DOCUMENTED", "DOCUMENTED_THEN_REST", "RANDOM", "ALPHABETICAL"}
\* the strategy argument a caller can pass
STRATEGY_INPUT == GENERATION_STRATEGY \cup {"BOGUS"}

\* the elements of a list
elems(s) == {s[k] : k \in DOMAIN s}
\* lists of distinct tables: what list_tables returns, what the CSV names
Listings ==
  {s \in UNION {[1..n -> TABLES] : n \in 0..MaxTables} :
     \A a, b \in DOMAIN s : a # b => s[a] # s[b]}
\* the orders random.shuffle can leave a list in
shuffle(tables) == {s \in Listings : Len(s) = Len(tables) /\ elems(s) = elems(tables)}
\* the position of a table name in string order
rank(t) == CASE t = "t1" -> 1 [] t = "t2" -> 2 [] OTHER -> 3
\* sorted(tables)
sorted(tables) ==
  CHOOSE s \in shuffle(tables) : \A a, b \in DOMAIN s : a < b => rank(s[a]) < rank(s[b])

\* TableOperations._order_tables_to_strategy
_order_tables_to_strategy(tables, strategy) ==
  CASE strategy = "NAIVE" -> {tables}
    [] strategy = "RANDOM" -> shuffle(tables)
    [] strategy = "ALPHABETICAL" -> {sorted(tables)}
    [] OTHER -> {tables}

\* the request a batch starts from: the dataset, the records flagged for
\* regeneration, the documentation CSV and the arguments of the call
InitBatch ==
  /\ opts \in [description_handling : {"APPEND"},
               stage_for_review : {FALSE},
               persist_to_dataplex_catalog : {FALSE},
               add_ai_warning : {FALSE},
               regenerate : BOOLEAN,
               use_human_comments : BOOLEAN]
  /\ bq_desc = <<>>
  /\ col_desc = <<>>
  /\ overview = [exists |-> FALSE, content |-> <<>>]
  /\ aspects = [t \in Targets |-> NoAspect]
  /\ promoted = {}
  /\ last = NoCall
  /\ ops = 0
  /\ context = NoContext
  /\ inference = NoInference
  /\ merge = NoMerge
  /\ local = NoLocal
  /\ prompt = NoPrompt
  /\ \E strategy \in STRATEGY_INPUT, csv_uri \in BOOLEAN, dataset \in Listings, csv \in Listings :
     \E flagged \in SUBSET elems(dataset) :
       batch = [NoBatch EXCEPT !.strategy = strategy, !.csv_uri = csv_uri, !.dataset = dataset,
                               !.flagged = flagged, !.csv = IF csv_uri THEN csv ELSE <<>>,
                               !.options = opts]

\* the batch ends with an exception leaving generate_dataset_tables_descriptions
batch_raise(b, e) == [b EXCEPT !.pc = "done", !.res = e]
\* self.generate_table_description(table, doc) in a loop of the batch: the call is
\* made, and an exception of the call leaves the loop and the batch
batch_generate(b, table, doc, out) ==
  LET called == [b EXCEPT !.calls = @ \o <<[table |-> table, doc |-> doc, out |-> out]>>]
  IN  IF out = "ok" THEN [called EXCEPT !.i = @ + 1] ELSE batch_raise(called, "raise")

\* generate_dataset_tables_descriptions up to its first loop: validation, listing
\* (TableOperations._list_tables_in_dataset, _list_tables_in_dataset_for_regeneration),
\* the CSV read (_get_tables_from_uri) and the ordering
batch_begin(regenerate) ==
  LET b == batch
      documented == b.strategy \in {"DOCUMENTED", "DOCUMENTED_THEN_REST"}
  IN
  /\ b.pc = "idle"
  /\ IF b.strategy \notin GENERATION_STRATEGY THEN batch' = batch_raise(b, "ValueError")
     ELSE IF b.strategy = "DOCUMENTED" /\ ~b.csv_uri THEN batch' = batch_raise(b, "ValueError")
     ELSE
       \E search \in (IF regenerate THEN {"ok", "denied", "raise"} ELSE {"none"}) :
       \E list \in (IF ~regenerate \/ search = "denied" THEN {"ok", "raise"} ELSE {"none"}) :
       LET listed == search = "ok" \/ list = "ok"
           tables == IF search = "ok" THEN SelectSeq(b.dataset, LAMBDA t : t \in b.flagged)
                     ELSE b.dataset
       IN
       \E read \in (IF documented /\ listed
                    THEN (IF b.csv_uri THEN {"ok", "raise"} ELSE {"raise"})
                    ELSE {"none"}) :
       \E order \in _order_tables_to_strategy(tables, b.strategy) :
         LET ext == (IF regenerate THEN {"search"} ELSE {})
                    \cup (IF list # "none" THEN {"list"} ELSE {})
                    \cup (IF read # "none" /\ b.csv_uri THEN {"csv"} ELSE {})
             b1 == [b EXCEPT !.ext = ext]
         IN  batch' =
               IF ~listed \/ read = "raise" THEN batch_raise(b1, "raise")
               ELSE [b1 EXCEPT !.tables = tables,
                               !.order = IF documented THEN <<>> ELSE order,
                               !.pc = IF ~documented THEN "sorted"
                                      ELSE IF regenerate THEN "regen" ELSE "csv"]
  /\ UNCHANGED <<bq_desc, col_desc, overview, aspects, promoted, last, ops, context, inference, merge, local, prompt>>

\* TableOperations.generate_dataset_tables_descriptions
generate_dataset_tables_descriptions ==
  batch_begin(opts.regenerate) /\ UNCHANGED opts

\* TableOperations.regenerate_dataset_tables_descriptions
regenerate_dataset_tables_descriptions ==
  /\ opts' = [opts EXCEPT !.use_human_comments = TRUE, !.regenerate = TRUE]
  /\ batch_begin(TRUE)

\* the loop over the CSV rows (regenerate unset): DOCUMENTED tests table[0],
\* DOCUMENTED_THEN_REST tests the row itself, a tuple, against the list of names
batch_csv_row ==
  LET b == batch IN
  /\ b.pc = "csv"
  /\ IF b.i > Len(b.csv)
     THEN batch' = IF b.strategy = "DOCUMENTED" THEN [b EXCEPT !.pc = "done", !.res = "ok"]
                   ELSE [b EXCEPT !.pc = "rest", !.i = 1]
     ELSE LET table == b.csv[b.i]
              not_in_tables == IF b.strategy = "DOCUMENTED" THEN table \notin elems(b.tables)
                               ELSE TRUE
          IN  IF not_in_tables THEN batch' = batch_raise(b, "ValueError")
              ELSE \E out \in {"ok", "raise"} : batch' = batch_generate(b, table, TRUE, out)
  /\ UNCHANGED <<opts, bq_desc, col_desc, overview, aspects, promoted, last, ops, context, inference, merge, local, prompt>>

\* the loop over the listed tables (regenerate set) of the documented strategies:
\* its first iteration calls self._check_if_table_should_be_regenerated, which
\* no class defines
batch_regenerate_documented ==
  LET b == batch IN
  /\ b.pc = "regen"
  /\ batch' = IF b.tables # <<>> THEN batch_raise(b, "AttributeError")
              ELSE IF b.strategy = "DOCUMENTED" THEN [b EXCEPT !.pc = "done", !.res = "ok"]
              ELSE [b EXCEPT !.pc = "rest", !.i = 1]
  /\ UNCHANGED <<opts, bq_desc, col_desc, overview, aspects, promoted, last, ops, context, inference, merge, local, prompt>>

\* the last loop of DOCUMENTED_THEN_REST: the listed tables the CSV does not name
batch_rest ==
  LET b == batch IN
  /\ b.pc = "rest"
  /\ IF b.i > Len(b.tables) THEN batch' = [b EXCEPT !.pc = "done", !.res = "ok"]
     ELSE LET table == b.tables[b.i]
          IN  IF table \in elems(b.csv) THEN batch' = [b EXCEPT !.i = @ + 1]
              ELSE \E out \in {"ok", "raise"} : batch' = batch_generate(b, table, FALSE, out)
  /\ UNCHANGED <<opts, bq_desc, col_desc, overview, aspects, promoted, last, ops, context, inference, merge, local, prompt>>

\* the loop of NAIVE, RANDOM and ALPHABETICAL over tables_sorted
batch_sorted ==
  LET b == batch IN
  /\ b.pc = "sorted"
  /\ IF b.i > Len(b.order) THEN batch' = [b EXCEPT !.pc = "done", !.res = "ok"]
     ELSE \E out \in {"ok", "raise"} : batch' = batch_generate(b, b.order[b.i], FALSE, out)
  /\ UNCHANGED <<opts, bq_desc, col_desc, overview, aspects, promoted, last, ops, context, inference, merge, local, prompt>>

\* ---- the context of a table's prompt (table_operations.py 136-204) -------------------
\* the start of one generate_table_description: the context options of the client
InitContext ==
  /\ opts = [description_handling |-> "APPEND", stage_for_review |-> FALSE,
             persist_to_dataplex_catalog |-> FALSE, add_ai_warning |-> FALSE,
             regenerate |-> FALSE, use_human_comments |-> FALSE]
  /\ bq_desc = <<>>
  /\ col_desc = <<>>
  /\ overview = [exists |-> FALSE, content |-> <<>>]
  /\ aspects = [t \in Targets |-> NoAspect]
  /\ promoted = {}
  /\ last = NoCall
  /\ ops = 0
  /\ batch = NoBatch
  /\ inference = NoInference
  /\ merge = NoMerge
  /\ local = NoLocal
  /\ prompt = NoPrompt
  /\ \E q, p, lt, lp \in BOOLEAN :
       context = [NoContext EXCEPT !.use_data_quality = q, !.use_profile = p,
                                   !.use_lineage_tables = lt, !.use_lineage_processes = lp]

\* an exception leaves generate_table_description at the step that raised it
context_raise(c, step) == [c EXCEPT !.pc = "done", !.res = "raise", !.failed = step]

\* the required sources: table_exists and get_table_schema raise on any failure
table_exists_and_schema ==
  /\ context.pc = "table_exists"
  /\ \E out \in {"ok", "table_exists", "get_table_schema"} :
       context' = IF out = "ok" THEN [context EXCEPT !.pc = "sample"]
                  ELSE context_raise(context, out)
  /\ UNCHANGED <<opts, bq_desc, col_desc, overview, aspects, promoted, last, ops, batch, inference, merge, local, prompt>>

\* BigQueryOperations.get_table_sample: BadRequest and Forbidden give "[]", every
\* other exception is logged and raised again
get_table_sample ==
  /\ context.pc = "sample"
  /\ \E out \in {"ok", "BadRequest", "Forbidden", "Exception"} :
       context' = CASE out = "ok" -> [context EXCEPT !.pc = "quality", !.table_sample = "rows"]
                    [] out \in {"BadRequest", "Forbidden"} ->
                         [context EXCEPT !.pc = "quality", !.table_sample = "[]"]
                    [] OTHER -> context_raise(context, "get_table_sample")
  /\ UNCHANGED <<opts, bq_desc, col_desc, overview, aspects, promoted, last, ops, batch, inference, merge, local, prompt>>

\* what a catalog or lineage getter returns: None when the option is off, its data
\* when the calls succeed, and its value for a failure (None or []) otherwise
optional_source(use, on_failure) == IF use THEN {"data", on_failure} ELSE {"None"}

\* TableOperations._get_table_quality, DataplexOperations.get_table_quality
get_table_quality ==
  /\ context.pc = "quality"
  /\ \E v \in optional_source(context.use_data_quality, "None") :
       context' = [context EXCEPT !.pc = "profile", !.table_quality = v]
  /\ UNCHANGED <<opts, bq_desc, col_desc, overview, aspects, promoted, last, ops, batch, inference, merge, local, prompt>>

\* TableOperations._get_table_profile, DataplexOperations.get_table_profile
get_table_profile ==
  /\ context.pc = "profile"
  /\ \E v \in optional_source(context.use_profile, "None") :
       context' = [context EXCEPT !.pc = "sources", !.table_profile = v]
  /\ UNCHANGED <<opts, bq_desc, col_desc, overview, aspects, promoted, last, ops, batch, inference, merge, local, prompt>>

\* TableOperations._get_table_sources_info, DataplexOperations.get_table_sources_info
get_table_sources_info ==
  /\ context.pc = "sources"
  /\ \E v \in optional_source(context.use_lineage_tables, "[]") :
       context' = [context EXCEPT !.pc = "jobs", !.table_sources_info = v]
  /\ UNCHANGED <<opts, bq_desc, col_desc, overview, aspects, promoted, last, ops, batch, inference, merge, local, prompt>>

\* TableOperations._get_job_sources, DataplexOperations.get_job_sources; the prompt
\* is formatted from the five values when it returns
get_job_sources ==
  /\ context.pc = "jobs"
  /\ \E v \in optional_source(context.use_lineage_processes, "[]") :
       context' = [context EXCEPT !.pc = "done", !.res = "prompt", !.job_sources_info = v]
  /\ UNCHANGED <<opts, bq_desc, col_desc, overview, aspects, promoted, last, ops, batch, inference, merge, local, prompt>>

\* ---- llm_inference (utils.py 144-200) ------------------------------------------------
\* retries = 3
retries == 3
\* base_delay = 1
base_delay == 1

\* the start of one llm_inference call: whether a document is attached and which
\* model the client's options select
InitInference ==
  /\ opts = [description_handling |-> "APPEND", stage_for_review |-> FALSE,
             persist_to_dataplex_catalog |-> FALSE, add_ai_warning |-> FALSE,
             regenerate |-> FALSE, use_human_comments |-> FALSE]
  /\ bq_desc = <<>>
  /\ col_desc = <<>>
  /\ overview = [exists |-> FALSE, content |-> <<>>]
  /\ aspects = [t \in Targets |-> NoAspect]
  /\ promoted = {}
  /\ last = NoCall
  /\ ops = 0
  /\ batch = NoBatch
  /\ context = NoContext
  /\ merge = NoMerge
  /\ local = NoLocal
  /\ prompt = NoPrompt
  /\ \E documentation_uri, use_ext_documents \in BOOLEAN :
       inference = [NoInference EXCEPT !.documentation_uri = documentation_uri,
                                       !.use_ext_documents = use_ext_documents]

\* a wait that grows by one unit with each retry
backoff_linear(attempt) == base_delay * (attempt + 1)
\* time.sleep(base_delay * (2 ** attempt))
backoff(attempt) == base_delay * (2 ^ attempt)

\* one iteration of the loop of llm_inference.  out is where the attempt ends:
\* "ok" (responses.text is returned), "init" (vertexai.init, the model or
\* Part.from_uri raises before the service is called), "generate_content" (the
\* service call raises), "text" (the response has no text and responses.text raises)
llm_inference ==
  /\ inference.res = "none"
  /\ inference.attempt \in 0..retries
  /\ \E out \in {"ok", "init", "generate_content", "text"} :
     \E text \in (IF out = "ok" THEN LLM_OUTPUT ELSE {<<>>}) :
       LET tried == [inference EXCEPT
                       !.attempts = @ \o <<[out |-> out,
                                            model |-> IF inference.use_ext_documents
                                                      THEN "LLM_VISION_TYPE" ELSE "LLM_TYPE",
                                            doc |-> inference.documentation_uri]>>]
       IN  inference' =
             IF out = "ok" THEN [tried EXCEPT !.res = "ok", !.text = text]
             ELSE IF inference.attempt = retries THEN [tried EXCEPT !.res = "raise"]
             ELSE [tried EXCEPT !.slept = @ \o <<backoff(inference.attempt)>>,
                                !.attempt = @ + 1]
  /\ UNCHANGED <<opts, bq_desc, col_desc, overview, aspects, promoted, last, ops, batch, context, merge, local, prompt>>

\* ---- combine_description on its own (utils.py 88-142) --------------------------------
\* the texts of at most len tokens: human text "h", the watermark, model text "a"
Texts(len) == UNION {[1..k -> {"h", AI_WARNING[1], "a"}] : k \in 0..len}

\* the description a store holds before the first combine_description
InitCombine ==
  /\ opts = [description_handling |-> "APPEND", stage_for_review |-> FALSE,
             persist_to_dataplex_catalog |-> FALSE, add_ai_warning |-> FALSE,
             regenerate |-> FALSE, use_human_comments |-> FALSE]
  /\ bq_desc = <<>>
  /\ col_desc = <<>>
  /\ overview = [exists |-> FALSE, content |-> <<>>]
  /\ aspects = [t \in Targets |-> NoAspect]
  /\ promoted = {}
  /\ last = NoCall
  /\ ops = 0
  /\ batch = NoBatch
  /\ context = NoContext
  /\ inference = NoInference
  /\ local = NoLocal
  /\ prompt = NoPrompt
  /\ \E text \in Texts(MaxLen) : merge = [NoMerge EXCEPT !.origin = text, !.text = text]

\* one call combine_description(old_description, new_description, description_handling)
\* on the description as it stands; the function returns a text and has no other
\* way to tell its caller anything (it raises nothing and logs at debug level)
apply_combine_description ==
  /\ merge.n < MaxMerges
  /\ \E new_description \in Texts(2), description_handling \in HANDLING_INPUT :
       LET result == combine_description(merge.text, new_description, description_handling)
       IN  /\ Len(result) <= MaxLen
           /\ merge' = [merge EXCEPT
                          !.old = merge.text, !.new = new_description,
                          !.handling = description_handling, !.text = result,
                          !.signal = "none", !.n = @ + 1,
                          !.appended = @ /\ lower(description_handling) = DESCRIPTION_HANDLING.APPEND]
  /\ UNCHANGED <<opts, bq_desc, col_desc, overview, aspects, promoted, last, ops, batch, context,
                 inference, local, prompt>>

\* ---- two record mutations running concurrently ---------------------------------------
\* the records the table can hold when the two mutations start
InitConcurrent ==
  /\ opts = [description_handling |-> "APPEND", stage_for_review |-> TRUE,
             persist_to_dataplex_catalog |-> FALSE, add_ai_warning |-> FALSE,
             regenerate |-> FALSE, use_human_comments |-> FALSE]
  /\ bq_desc = <<>>
  /\ col_desc = <<>>
  /\ overview = [exists |-> FALSE, content |-> <<>>]
  /\ \E rec \in {NoAspect} \cup
                [exists : {TRUE}, has_contents : {TRUE}, contents : LLM_OUTPUT,
                 tbr : {"true", "false"}, acc : {"true", "false"},
                 has_hc : {TRUE}, hc : {<<>>, <<"c1">>}, has_ne : {TRUE}, ne : {<<>>}] :
       aspects = [t \in Targets |-> IF t = "table" THEN rec ELSE NoAspect]
  /\ promoted = {}
  /\ last = NoCall
  /\ ops = 0
  /\ batch = NoBatch
  /\ context = NoContext
  /\ inference = NoInference
  /\ merge = NoMerge
  /\ local = NoLocal
  /\ prompt = NoPrompt

\* client.get_entry of a mutation: it reads the whole aspect of the table
read_entry(p, comment) ==
  /\ local[p].pc = "idle"
  /\ local' = [local EXCEPT ![p] = [pc |-> "read", entry |-> aspects["table"],
                                    comment |-> comment, res |-> "none"]]
  /\ UNCHANGED <<opts, bq_desc, col_desc, overview, aspects, promoted, last, ops, batch, context,
                 inference, merge, prompt>>

\* client.update_entry of a mutation: update_mask ["aspects"] and aspect_keys
\* [aspect_name] replace the whole aspect by the data built from what was read
update_entry(p, data) ==
  /\ local[p].pc = "read"
  /\ \E out \in Outcome2(TRUE) :
       /\ aspects' = IF out = "ok" THEN [aspects EXCEPT !["table"] = data] ELSE aspects
       /\ local' = [local EXCEPT ![p].pc = "done",
                                 ![p].res = IF out = "ok" THEN "True" ELSE "False"]
  /\ UNCHANGED <<opts, bq_desc, col_desc, overview, promoted, last, ops, batch, context,
                 inference, merge, prompt>>

\* ReviewOperations.add_comment_to_table_draft_description, its get_entry
add_comment_get_entry ==
  \E comment \in COMMENTS : read_entry("add_comment", comment)

\* ReviewOperations.add_comment_to_table_draft_description, its update_entry
add_comment_update_entry ==
  update_entry("add_comment",
               comment_data(local["add_comment"].entry, local["add_comment"].comment))

\* DataplexOperations.mark_table_for_regeneration, its get_entry
mark_for_regeneration_get_entry == read_entry("mark_for_regeneration", "none")

\* DataplexOperations.mark_table_for_regeneration, its update_entry
mark_for_regeneration_update_entry ==
  update_entry("mark_for_regeneration", mark_data(local["mark_for_regeneration"].entry, "true"))

\* ---- PromptManager (prompt_manager.py) -----------------------------------------------
\* a section when its condition holds, nothing otherwise
section(condition, name) == IF condition THEN <<name>> ELSE <<>>

\* PromptManager._get_prompt_table: the constants["PROMPTS"] keys it concatenates
_get_prompt_table(o) ==
  <<"SYSTEM_PROMPT", "TABLE_DESCRIPTION_PROMPT_BASE">>
  \o section(o.use_profile, "TABLE_DESCRIPTION_PROMPT_PROFILE")
  \o section(o.use_data_quality, "TABLE_DESCRIPTION_PROMPT_QUALITY")
  \o section(o.use_lineage_tables, "TABLE_DESCRIPTION_PROMPT_LINEAGE_TABLES")
  \o section(o.use_lineage_processes, "TABLE_DESCRIPTION_PROMPT_LINEAGE_PROCESSES")
  \o section(o.use_ext_documents, "TABLE_DESCRIPTION_PROMPT_DOCUMENT")
  \o section(o.use_human_comments, "TABLE_DESCRIPTION_PROMPT_HUMAN_COMMENTS")
  \o <<"TABLE_DESCRIPTION_GENERATION_BASE">>
  \o section(o.use_lineage_tables \/ o.use_lineage_processes, "TABLE_DESCRIPTION_GENERATION_LINEAGE")
  \o <<"OUTPUT_FORMAT_PROMPT">>

\* PromptManager._get_prompt_columns
_get_prompt_columns(o) ==
  <<"SYSTEM_PROMPT">>
  \o (IF o.top_values_in_description
      THEN <<"COLUMN_DESCRIPTION_PROMPT_BASE_WITH_EXAMPLES">>
      ELSE <<"COLUMN_DESCRIPTION_PROMPT_BASE">>)
  \o section(o.use_profile, "TABLE_DESCRIPTION_PROMPT_PROFILE")
  \o section(o.use_data_quality, "TABLE_DESCRIPTION_PROMPT_QUALITY")
  \o section(o.use_lineage_tables, "TABLE_DESCRIPTION_PROMPT_LINEAGE_TABLES")
  \o section(o.use_lineage_processes, "TABLE_DESCRIPTION_PROMPT_LINEAGE_PROCESSES")
  \o section(o.use_human_comments, "COLUMN_DESCRIPTION_PROMPT_HUMAN_COMMENTS")
  \o <<"OUTPUT_FORMAT_PROMPT">>

\* the options of the client a PromptManager is built with
InitPrompt ==
  /\ opts = [description_handling |-> "APPEND", stage_for_review |-> FALSE,
             persist_to_dataplex_catalog |-> FALSE, add_ai_warning |-> FALSE,
             regenerate |-> FALSE, use_human_comments |-> FALSE]
  /\ bq_desc = <<>>
  /\ col_desc = <<>>
  /\ overview = [exists |-> FALSE, content |-> <<>>]
  /\ aspects = [t \in Targets |-> NoAspect]
  /\ promoted = {}
  /\ last = NoCall
  /\ ops = 0
  /\ batch = NoBatch
  /\ context = NoContext
  /\ inference = NoInference
  /\ merge = NoMerge
  /\ local = NoLocal
  /\ prompt \in [use_profile : BOOLEAN, use_data_quality : BOOLEAN,
                 use_lineage_tables : BOOLEAN, use_lineage_processes : BOOLEAN,
                 use_ext_documents : BOOLEAN, use_human_comments : BOOLEAN,
                 top_values_in_description : BOOLEAN,
                 prompt_type : {"none"}, sections : {<<>>}]

\* PromptManager.get_promtp
get_promtp ==
  /\ prompt.prompt_type = "none"
  /\ \E prompt_type \in {"PROMPT_TYPE_TABLE", "PROMPT_TYPE_COLUMN"} :
       prompt' = [prompt EXCEPT
                    !.prompt_type = prompt_type,
                    !.sections = IF prompt_type = "PROMPT_TYPE_TABLE"
                                 THEN _get_prompt_table(prompt)
                                 ELSE _get_prompt_columns(prompt)]
  /\ UNCHANGED <<opts, bq_desc, col_desc, overview, aspects, promoted, last, ops, batch, context,
                 inference, merge, local>>

\* ---- specifications --------------------------------------------------------------------
\* the life of the table's description: generate, accept, flag
NextTable ==
  \/ generate_table_description
  \/ accept_table_draft_description
  \/ api_accept_table_draft_description
  \/ mark_table_for_regeneration
  \/ mark_table_as_regenerated

SpecTable == Init /\ [][NextTable]_vars

\* the life of the column's description
NextColumn ==
  \/ generate_columns_descriptions
  \/ accept_column_draft_description
  \/ mark_column_for_regeneration
  \/ mark_column_as_regenerated
  \/ add_comment_to_column_draft_description

SpecColumn == Init /\ [][NextColumn]_vars

\* the reviewer's operations on the records of both targets
NextReview ==
  \/ add_comment_to_table_draft_description
  \/ add_comment_to_column_draft_description
  \/ mark_table_for_regeneration
  \/ mark_column_for_regeneration

SpecReview == Init /\ [][NextReview]_vars

\* the two lists of the table's record and the operations that rewrite the record
NextLists ==
  \/ add_comment_to_table_draft_description
  \/ api_add_negative_example
  \/ api_accept_table_draft_description
  \/ mark_table_for_regeneration

SpecLists == Init /\ [][NextLists]_vars

\* the regeneration flag of both targets, on records of every origin
NextFlags ==
  \/ mark_table_for_regeneration
  \/ mark_table_as_regenerated
  \/ mark_column_for_regeneration
  \/ mark_column_as_regenerated
  \/ add_comment_to_table_draft_description
  \/ add_comment_to_column_draft_description

SpecFlags == Init /\ [][NextFlags]_vars

\* a dataset batch from its request to its end
NextBatch ==
  \/ generate_dataset_tables_descriptions
  \/ regenerate_dataset_tables_descriptions
  \/ batch_csv_row
  \/ batch_regenerate_documented
  \/ batch_rest
  \/ batch_sorted

SpecBatch == InitBatch /\ [][NextBatch]_vars

\* one generate_table_description from its first call to its prompt
NextContext ==
  \/ table_exists_and_schema
  \/ get_table_sample
  \/ get_table_quality
  \/ get_table_profile
  \/ get_table_sources_info
  \/ get_job_sources

SpecContext == InitContext /\ [][NextContext]_vars

\* one llm_inference call, attempt by attempt
NextInference == llm_inference

SpecInference == InitInference /\ [][NextInference]_vars

\* a description merged again and again
NextCombine == apply_combine_description

SpecCombine == InitCombine /\ [][NextCombine]_vars

\* a comment and a mark on the same table, their calls interleaved
NextConcurrent ==
  \/ add_comment_get_entry
  \/ add_comment_update_entry
  \/ mark_for_regeneration_get_entry
  \/ mark_for_regeneration_update_entry

SpecConcurrent == InitConcurrent /\ [][NextConcurrent]_vars

\* a prompt built from the options
NextPrompt == get_promtp

SpecPrompt == InitPrompt /\ [][NextPrompt]_vars

Next ==
  \/ NextTable \/ NextColumn \/ NextReview \/ NextLists \/ NextFlags
  \/ NextBatch \/ NextContext \/ NextInference \/ NextCombine \/ NextConcurrent
  \/ NextPrompt

Spec == Init /\ [][Next]_vars

\* ---- properties ------------------------------------------------------------------------
\* C1: accept_table_draft_description on a table whose record is absent, holds
\* no contents or holds empty contents returns False and writes nothing: the
\* warehouse description, the overview and the records are as before the call.
C1_AcceptWithoutDraft ==
  [][(last'.op = "accept_table" /\ draft_of(aspects["table"]) = <<>>)
       => /\ last'.res = "False"
          /\ last'.wh = "none" /\ last'.cat = "none"
          /\ bq_desc' = bq_desc
          /\ overview' = overview
          /\ aspects' = aspects]_vars

\* an accept was refused on a record that exists and holds an empty draft
C1_Witness ==
  /\ last.op = "accept_table" /\ last.tgt = "table"
  /\ last.res = "False"
  /\ aspects["table"].exists
  /\ aspects["table"].has_contents
  /\ aspects["table"].contents = <<>>
  /\ ops >= 2

\* C2: when the accept's warehouse write succeeds and its catalog write fails,
\* the result differs from the one returned when both writes fail, and the
\* record is not accepted afterwards.
C2_PartialPersistence ==
  (last.op = "accept_table" /\ last.tgt = "table" /\ last.wh = "ok" /\ last.cat = "false")
    => /\ last.res # accept_table(aspects["table"], "ok", "false", "fail").res
       /\ ~is_accepted(aspects["table"])

\* C3: after an accept of the table or the column whose writes all succeeded,
\* the record is accepted and not to be regenerated.
C3_AcceptMarksRecord ==
  \A t \in Targets :
    (/\ \/ last.op = "accept_table" /\ last.tgt = t /\ last.wh = "ok" /\ last.cat = "ok"
        \/ last.op = "accept_column" /\ last.tgt = t /\ last.wh = "ok" /\ last.rec = "ok"
     /\ last.res = "True")
      => /\ is_accepted(aspects[t])
         /\ ~should_be_regenerated(aspects[t])

\* C4: a record is accepted only if an accept has copied the target's draft
\* into the permanent description.
C4_AcceptedWasPromoted ==
  \A t \in Targets : is_accepted(aspects[t]) => t \in promoted

\* C5: accept_column_draft_description on a column whose record exists and
\* holds no or empty draft text returns False, makes no warehouse write and
\* leaves is-accepted as it was.
C5_AcceptColumnEmptyDraft ==
  [][(/\ last'.op = "accept_column"
      /\ aspects["column"].exists
      /\ draft_of(aspects["column"]) = <<>>)
       => /\ last'.res = "False"
          /\ last'.wh = "none"
          /\ col_desc' = col_desc
          /\ aspects'["column"].acc = aspects["column"].acc]_vars

\* C6: a generate run with regenerate set that returns success on a table
\* flagged for regeneration leaves the table not to be regenerated.
C6_RegenerationClearsFlag ==
  [][(/\ should_be_regenerated(aspects["table"])
      /\ opts.regenerate
      /\ last'.op = "generate_table"
      /\ last'.res = "success")
       => ~should_be_regenerated(aspects'["table"])]_vars

\* C7: a generate run with stage_for_review set changes neither the warehouse
\* description nor the overview (nor the column's description), whatever the
\* other options and the outcomes of its calls; of the records it changes only
\* the table's, and there only the draft's own fields, not the comments and
\* negative examples.
C7_StagedLeavesPermanent ==
  [][(last'.op = "generate_table" /\ opts.stage_for_review)
       => /\ bq_desc' = bq_desc
          /\ overview' = overview
          /\ col_desc' = col_desc
          /\ last'.wh = "none" /\ last'.cat = "none"
          /\ aspects'["column"] = aspects["column"]
          /\ aspects'["table"].hc = aspects["table"].hc
          /\ aspects'["table"].ne = aspects["table"].ne]_vars

\* a staged generate wrote a draft beside a permanent description
C7_Witness ==
  /\ last.op = "generate_table" /\ last.tgt = "table"
  /\ opts.stage_for_review
  /\ last.rec = "ok"
  /\ aspects["table"].contents = last.text
  /\ bq_desc = <<"h">>
  /\ overview.exists

C9_StoresMergedByPolicy ==
  [][(last'.op = "generate_table" /\ ~opts.stage_for_review)
       => /\ last'.wh = "ok"
               => bq_desc' = combine_description(bq_desc, last'.text,
                                                 opts.description_handling)
          /\ (opts.persist_to_dataplex_catalog /\ last'.cat = "ok")
               => overview'.content = combine_description(overview.content, last'.text,
                                                          opts.description_handling)
          /\ ~opts.persist_to_dataplex_catalog => overview' = overview]_vars

\* C10: a successful add_comment on the table or the column leaves the
\* target's human-comments equal to the list before the call followed by the
\* new comment, so any sequence of them keeps the earlier comments in their
\* order; on a target without a record it creates a record that holds the
\* comment and nothing else; a failed add_comment changes no record.
C10_AddCommentAppends ==
  [][\A t \in Targets :
       (last'.op = "add_comment" /\ last'.tgt = t)
         => IF last'.res = "True"
            THEN \E comment \in COMMENTS :
                   /\ aspects'[t].hc = aspects[t].hc \o <<comment>>
                   /\ aspects'[t].has_hc
                   /\ ~aspects[t].exists
                        => aspects'[t] = [NoAspect EXCEPT !.exists = TRUE, !.has_hc = TRUE,
                                                          !.hc = <<comment>>]
                   /\ \A u \in Targets \ {t} : aspects'[u] = aspects[u]
            ELSE aspects' = aspects]_vars

\* the column's list holds two comments after an add_comment, and the table's
\* record was created by an add_comment of one
C10_Witness ==
  /\ last.op = "add_comment" /\ last.tgt = "column"
  /\ last.res = "True"
  /\ Len(aspects["column"].hc) = 2
  /\ aspects["column"].hc[1] # aspects["column"].hc[2]
  /\ aspects["table"] = [NoAspect EXCEPT !.exists = TRUE, !.has_hc = TRUE, !.hc = <<"c1">>]

\* C11: a successful add_negative_example appends the example to the end of
\* negative-examples and changes nothing else in the record: the draft text,
\* is-accepted, to-be-regenerated and human-comments are as before the call.
C11_NegativeExampleOnlyAppends ==
  [][(last'.op = "add_negative_example" /\ last'.res = "200")
       => /\ aspects'["table"].ne = aspects["table"].ne \o last'.text
          /\ draft_of(aspects'["table"]) = draft_of(aspects["table"])
          /\ is_accepted(aspects'["table"]) = is_accepted(aspects["table"])
          /\ should_be_regenerated(aspects'["table"]) = should_be_regenerated(aspects["table"])
          /\ aspects'["table"].hc = aspects["table"].hc]_vars

\* C12: an accept, a staged generate, a mark-for-regeneration or a
\* mark-as-regenerated on a target whose record exists leaves the record's
\* human-comments and negative-examples as they were, whatever the outcomes of
\* the calls the operation makes.
C12_ListsKeptByOtherOperations ==
  [][\A t \in Targets :
       (/\ last'.tgt = t
        /\ \/ last'.op \in {"accept_table", "api_accept_table", "accept_column",
                            "mark_for_regeneration", "mark_as_regenerated"}
           \/ last'.op \in {"generate_table", "generate_columns"} /\ opts.stage_for_review
        /\ aspects[t].exists)
         => /\ aspects'[t].hc = aspects[t].hc
            /\ aspects'[t].ne = aspects[t].ne]_vars

\* C13: a successful mark-for-regeneration leaves to-be-regenerated true and a
\* successful mark-as-regenerated leaves it false, for the table and for the
\* column and whatever the record held; the other fields of an existing record
\* are kept; on a target without a record the call creates one with that flag,
\* empty contents and empty human-comments and negative-examples; a failed
\* call changes no record.
C13_MarkSetsFlag ==
  [][\A t \in Targets :
       (last'.tgt = t /\ last'.op \in {"mark_for_regeneration", "mark_as_regenerated"})
         => IF last'.res = "True"
            THEN LET flag == IF last'.op = "mark_for_regeneration" THEN "true" ELSE "false"
                 IN  /\ aspects'[t].tbr = flag
                     /\ should_be_regenerated(aspects'[t]) = (flag = "true")
                     /\ aspects[t].exists => aspects'[t] = [aspects[t] EXCEPT !.tbr = flag]
                     /\ ~aspects[t].exists
                          => /\ aspects'[t].exists
                             /\ aspects'[t].has_contents /\ aspects'[t].contents = <<>>
                             /\ aspects'[t].has_hc /\ aspects'[t].hc = <<>>
                             /\ aspects'[t].has_ne /\ aspects'[t].ne = <<>>
                             /\ ~is_accepted(aspects'[t])
                     /\ \A u \in Targets \ {t} : aspects'[u] = aspects[u]
            ELSE aspects' = aspects]_vars

\* the column's record was created by marks and now says regenerated, while the
\* table's record, which holds a comment, is flagged
C13_Witness ==
  /\ last.op = "mark_as_regenerated" /\ last.tgt = "column"
  /\ last.res = "True"
  /\ aspects["column"].tbr = "false"
  /\ aspects["column"].has_contents /\ aspects["column"].contents = <<>>
  /\ aspects["column"].has_ne /\ aspects["column"].hc = <<>>
  /\ aspects["table"].tbr = "true"
  /\ aspects["table"].hc # <<>>

\* ---- C14 ----------------------------------------------------------------------------
\* C14 (as stated): in a dataset batch a target whose generation fails does not stop
\* the batch: when the batch has ended, generation was called for every target of
\* the scheduled order, those after a failed one included.
C14_BatchContinuesAfterFailure ==
  (batch.pc = "done" /\ batch.strategy \in {"NAIVE", "RANDOM", "ALPHABETICAL"}) =>
    \A k \in DOMAIN batch.order : \E j \in DOMAIN batch.calls : batch.calls[j].table = batch.order[k]

\* ---- C15 ----------------------------------------------------------------------------
\* C15 (as stated): under DOCUMENTED, when the CSV names a table that the dataset
\* does not hold, the batch that ends with the configuration error has generated
\* no target, the CSV rows before the absent one included.
C15_AbsentTargetNothingGenerated ==
  (/\ batch.pc = "done"
   /\ batch.strategy = "DOCUMENTED"
   /\ batch.res = "ValueError"
   /\ \E k \in DOMAIN batch.csv : batch.csv[k] \notin elems(batch.dataset))
  => batch.calls = <<>>

\* ---- C16 ----------------------------------------------------------------------------
\* C16 (as stated): under DOCUMENTED_THEN_REST with regenerate unset, when the
\* listing and the CSV read succeed, the CSV names only tables of the dataset and
\* no generation fails, the batch ends normally having generated every table of
\* the dataset exactly once: the CSV rows first, in CSV order, each with its
\* document, then the other tables of the dataset with no document.
C16_DocumentedThenRestOrder ==
  (/\ batch.pc = "done"
   /\ batch.strategy = "DOCUMENTED_THEN_REST"
   /\ ~opts.regenerate
   /\ {"list", "csv"} \subseteq batch.ext
   /\ batch.res # "raise"
   /\ elems(batch.csv) \subseteq elems(batch.dataset))
  => LET rest == SelectSeq(batch.dataset, LAMBDA t : t \notin elems(batch.csv))
     IN  /\ batch.res = "ok"
         /\ batch.calls = [k \in 1..(Len(batch.csv) + Len(rest)) |->
                             IF k <= Len(batch.csv)
                             THEN [table |-> batch.csv[k], doc |-> TRUE, out |-> "ok"]
                             ELSE [table |-> rest[k - Len(batch.csv)], doc |-> FALSE, out |-> "ok"]]

\* ---- C17 ----------------------------------------------------------------------------
\* C17 (as stated): in a batch that runs with regenerate set, generation is called
\* only for tables whose record is flagged for regeneration, under every strategy
\* and every outcome of the record search.
C17_RegenerateOnlyFlagged ==
  opts.regenerate =>
    \A j \in DOMAIN batch.calls : batch.calls[j].table \in batch.flagged

\* ---- C18 ----------------------------------------------------------------------------
\* C18 (as stated): a batch requested with an invalid strategy name, or with
\* DOCUMENTED or DOCUMENTED_THEN_REST and no CSV URI, ends with the configuration
\* error and has made no external call: no listing, no record search, no CSV
\* read, no generation.
C18_ConfigurationErrorBeforeCalls ==
  (/\ batch.pc # "idle"
   /\ \/ batch.strategy \notin GENERATION_STRATEGY
      \/ batch.strategy \in {"DOCUMENTED", "DOCUMENTED_THEN_REST"} /\ ~batch.csv_uri)
  => /\ batch.pc = "done"
     /\ batch.res = "ValueError"
     /\ batch.ext = {}
     /\ batch.calls = <<>>

\* ---- C19 ----------------------------------------------------------------------------
\* C19 (as stated): a failure of a context source that is not required (row sample,
\* profile, quality, lineage tables, lineage processes) never makes generate fail:
\* when generate_table_description ends with an exception, the exception came from
\* a required step, and a sample that failed is the empty sample.
C19_ContextFailureNeverFatal ==
  context.res = "raise" => context.failed \in {"table_exists", "get_table_schema"}

\* ---- C20 ----------------------------------------------------------------------------
\* C20: one llm_inference call makes at most 4 attempts, each calling the service
\* at most once; a successful attempt is the last one and its text is returned;
\* before each retry the call waits 1, 2, then 4 units; the call raises only when
\* the 4th attempt has failed; and as long as the call has neither returned nor
\* raised fewer than 4 attempts were made, so the loop ends.
C20_InferenceBoundedRetries ==
  LET n == Len(inference.attempts)
      failed(k) == inference.attempts[k].out # "ok"
  IN  /\ n <= 4
      /\ \A k \in 1..(n - 1) : failed(k)
      /\ inference.res = "ok" <=> (n > 0 /\ ~failed(n))
      /\ inference.res = "ok" => inference.text \in LLM_OUTPUT
      /\ inference.res = "raise" <=> (n = 4 /\ failed(4))
      /\ inference.res = "none" => n < 4 /\ inference.attempt = n
      /\ Len(inference.slept) = IF inference.res = "none" THEN n ELSE n - 1
      /\ \A k \in DOMAIN inference.slept : inference.slept[k] = 2 ^ (k - 1)
      /\ Len(inference.slept) <= 3

\* the 4th attempt has failed after the three waits, and the call raised
C20_Witness ==
  /\ inference.res = "raise"
  /\ Len(inference.attempts) = 4
  /\ inference.slept = <<1, 2, 4>>

\* ---- C21 ----------------------------------------------------------------------------
\* C21 (as stated): under APPEND, combining an old text that holds the watermark
\* with a non-empty new text gives the part of the old text before the watermark,
\* then the watermark, then the new text.
C21_AppendKeepsWatermark ==
  (/\ merge.n > 0
   /\ lower(merge.handling) = DESCRIPTION_HANDLING.APPEND
   /\ merge.new # <<>>
   /\ index(merge.old) # 0)
  => merge.text = SubSeq(merge.old, 1, index(merge.old) - 1) \o AI_WARNING \o merge.new

\* ---- C22 ----------------------------------------------------------------------------
\* C22: under APPEND combine_description never loses human-authored text: the
\* result of a call begins with the part of the old text before its first
\* watermark (with all of it when it holds none), and after any sequence of APPEND
\* calls the description still begins with the human prefix it started with.
C22_AppendKeepsHumanPrefix ==
  LET human(text) == IF index(text) # 0 THEN SubSeq(text, 1, index(text) - 1) ELSE text
      begins(text, prefix) ==
        Len(prefix) <= Len(text) /\ SubSeq(text, 1, Len(prefix)) = prefix
  IN  /\ (merge.n > 0 /\ lower(merge.handling) = DESCRIPTION_HANDLING.APPEND)
          => begins(merge.text, human(merge.old))
      /\ merge.appended => begins(merge.text, human(merge.origin))

\* two APPEND calls were made on a description that held human text, a watermark
\* and model text, and each call brought new text
C22_Witness ==
  /\ merge.n = 2
  /\ merge.appended
  /\ merge.origin = <<"h", "W", "a">>
  /\ merge.new # <<>>
  /\ merge.old # merge.origin
  /\ index(merge.old) # 0

\* ---- C23 ----------------------------------------------------------------------------
\* C23 (as stated): combine_description called with a non-empty new text and a
\* policy that is none of APPEND, PREPEND, REPLACE returns the old text unchanged
\* and signals a configuration error to its caller.
C23_UnrecognizedPolicySignalled ==
  (/\ merge.n > 0
   /\ merge.new # <<>>
   /\ lower(merge.handling) \notin {DESCRIPTION_HANDLING.APPEND, DESCRIPTION_HANDLING.PREPEND,
                                    DESCRIPTION_HANDLING.REPLACE})
  => /\ merge.text = merge.old
     /\ merge.signal = "ConfigurationError"

\* ---- C24 ----------------------------------------------------------------------------
\* C24 (as stated): generate_table_description returns its success result only when
\* every write it made took effect: a failed draft write, a failed overview write
\* or a failed write clearing to-be-regenerated is not reported as a success.
C24_SuccessMeansWritten ==
  (last.op = "generate_table" /\ last.res = "success")
  => /\ last.rec # "false"
     /\ last.cat # "false"
     /\ last.clr # "fail"

\* ---- C25 ----------------------------------------------------------------------------
\* C25 (as stated): when an add-comment and a mark-for-regeneration on the same
\* table run concurrently and both report success, the final record holds both
\* changes: the comment is in human-comments and to-be-regenerated is true.
C25_ConcurrentMutationsBothKept ==
  (/\ local["add_comment"].pc = "done" /\ local["add_comment"].res = "True"
   /\ local["mark_for_regeneration"].pc = "done" /\ local["mark_for_regeneration"].res = "True")
  => /\ \E k \in DOMAIN aspects["table"].hc :
          aspects["table"].hc[k] = local["add_comment"].comment
     /\ aspects["table"].tbr = "true"

\* ---- C26 ----------------------------------------------------------------------------
\* C26 (as stated): a staged generate run with regenerate unset, an add-comment and
\* an add-negative-example leave a to-be-regenerated flag that is true true: the
\* flag goes back to false only through a regeneration pass or an accept.
C26_FlagKeptOutsideRegeneration ==
  [][(/\ should_be_regenerated(aspects["table"])
      /\ \/ last'.op = "generate_table" /\ opts.stage_for_review /\ ~opts.regenerate
         \/ last'.op \in {"add_comment", "add_negative_example"} /\ last'.tgt = "table")
       => should_be_regenerated(aspects'["table"])]_vars

\* ---- C27 ----------------------------------------------------------------------------
\* C27 (as stated): when a dataset batch, generate or regenerate, has ended, every
\* option of the client has the value it had when the batch was requested:
\* use_human_comments is untouched and regenerate is back to its earlier value.
C27_OptionsRestoredAfterBatch ==
  batch.pc = "done" => opts = batch.options

\* ---- C28 ----------------------------------------------------------------------------
\* C28 (as stated): in a table prompt and in a column prompt alike, the optional
\* sections are exactly those whose option is set, in the order profile, quality,
\* lineage tables, lineage processes, external document, human comments.
C28_PromptSectionsFollowOptions ==
  prompt.prompt_type # "none" =>
    LET kind(name) ==
          CASE name = "TABLE_DESCRIPTION_PROMPT_PROFILE" -> "profile"
            [] name = "TABLE_DESCRIPTION_PROMPT_QUALITY" -> "quality"
            [] name = "TABLE_DESCRIPTION_PROMPT_LINEAGE_TABLES" -> "lineage-tables"
            [] name = "TABLE_DESCRIPTION_PROMPT_LINEAGE_PROCESSES" -> "lineage-processes"
            [] name = "TABLE_DESCRIPTION_PROMPT_DOCUMENT" -> "external-document"
            [] name \in {"TABLE_DESCRIPTION_PROMPT_HUMAN_COMMENTS",
                         "COLUMN_DESCRIPTION_PROMPT_HUMAN_COMMENTS"} -> "human-comments"
            [] OTHER -> "fixed"
        optional == SelectSeq([k \in DOMAIN prompt.sections |-> kind(prompt.sections[k])],
                              LAMBDA x : x # "fixed")
    IN  optional = section(prompt.use_profile, "profile")
                   \o section(prompt.use_data_quality, "quality")
                   \o section(prompt.use_lineage_tables, "lineage-tables")
                   \o section(prompt.use_lineage_processes, "lineage-processes")
                   \o section(prompt.use_ext_documents, "external-document")
                   \o section(prompt.use_human_comments, "human-comments")

\* ---- C29 ----------------------------------------------------------------------------
\* C29 (as stated): llm_inference attaches the document to the request exactly when
\* use_ext_documents is set and a document URI is given; with use_ext_documents
\* unset no document is attached even when a URI is given.
C29_DocumentOnlyWithOption ==
  \A k \in DOMAIN inference.attempts :
    inference.attempts[k].out # "init" =>
      (inference.attempts[k].doc
         <=> (inference.use_ext_documents /\ inference.documentation_uri))

\* ---- C30 ----------------------------------------------------------------------------
\* C30 (as stated): accepting the table again with the same draft, right after an
\* accept that updated only one of the two stores, leaves each store with what one
\* fully successful accept would have written: the store the first accept updated
\* is not changed by the second, and the other store receives the draft merged
\* into its earlier value.
C30_AcceptRetryIdempotent ==
  [][(/\ last.op = "accept_table"
      /\ (last.wh = "ok") # (last.cat = "ok")
      /\ last'.op = "accept_table" /\ last'.wh = "ok" /\ last'.cat = "ok")
       => /\ last.wh = "ok" => bq_desc' = bq_desc
          /\ last.cat = "ok" => overview' = overview
          /\ last.wh # "ok" => bq_desc' = update_table_description(draft_of(aspects["table"]))
          /\ last.cat # "ok" =>
               overview' = update_table_dataplex_description(draft_of(aspects["table"]))]_vars

====
